---- MODULE Spec2Model ----
(***************************************************************************)
(* DecodeGEMV (python/tvm/dlight/gpu/decode_gemv.py): the dlight GPU       *)
(* schedule rule for a dequantize-then-reduce producer with an optional    *)
(* injective epilogue.  The model follows one invocation of                *)
(* DecodeGEMV.apply on a candidate PrimFunc: the pattern check, _normalize,*)
(* one of the two scheduling strategies, and then the execution of the     *)
(* emitted loop nests of one grid block, in program order.                 *)
(***************************************************************************)
EXTENDS Integers, Sequences, FiniteSets, Bags, TLC

\* ---------------------------------------------------------------- bounds
MaxIters == 2      \* IterVars of the producer block
MaxDom == 3        \* domain size of an IterVar
MaxLf == 2         \* lower_factor of a term of the dominant access
MaxThreads == 3    \* thread count the device advisor may suggest
MaxReads == 2      \* read regions of the producer block

\* The dominant access has at most as many terms as the producer has
\* IterVars (a variable may come twice); the epilogue has at most one IterVar
\* more than the producer.
MaxArgs == MaxIters
MaxEpiIters == MaxIters + 1
\* A read region has at most one dimension more than the block has reads.
MaxRank == MaxReads

\* ------------------------------------------------------ program constants
len_tx == 16
len_ty == 16

\* ------------------------------------------------------------- helpers
Ceil(a, b) == (a + b - 1) \div b

RECURSIVE SeqsUpTo(_, _)
SeqsUpTo(S, n) ==
  IF n = 0 THEN {<<>>}
  ELSE SeqsUpTo(S, n - 1) \cup
       {Append(s, x) : s \in {t \in SeqsUpTo(S, n - 1) : Len(t) = n - 1}, x \in S}

RECURSIVE Prod(_)
Prod(exts) == IF exts = <<>> THEN 1 ELSE Head(exts) * Prod(Tail(exts))

\* ---------------------------------------------------------- the candidate
\* The body of the first block, as _get_reduction_expr tells the forms apart.
\* Bodies are stores X[indices] = a + b over two index positions, stores of
\* something that is no addition, and statements that are no store.  An
\* operand is a load of X at some indices or another expression Y; an index
\* is a variable or a variable plus a constant.
IndexExprs == [var : {"v_i", "v_j"}, plus : {0, 1}]
Loads == [load : {TRUE}, idx : [1..2 -> IndexExprs]]
ExprY == [load |-> FALSE, idx |-> <<>>]
StoreIndices ==
  {<<[var |-> "v_i", plus |-> 0], [var |-> "v_j", plus |-> 0]>>,
   <<[var |-> "v_i", plus |-> 0], [var |-> "v_i", plus |-> 0]>>}
LoadAt(indices) == [load |-> TRUE, idx |-> indices]
NotStoreBody ==
  [store |-> FALSE, add |-> FALSE, indices |-> <<>>, a |-> ExprY, b |-> ExprY]
NotAddBody ==
  [store |-> TRUE, add |-> FALSE,
   indices |-> <<[var |-> "v_i", plus |-> 0], [var |-> "v_j", plus |-> 0]>>,
   a |-> ExprY, b |-> ExprY]
AddBodies ==
  {[store |-> TRUE, add |-> TRUE, indices |-> ix, a |-> a, b |-> b] :
     ix \in StoreIndices, a \in Loads \cup {ExprY}, b \in {ExprY} \cup {LoadAt(jx) : jx \in StoreIndices}}
\* X[v_i, v_j] = X[v_i, v_j] + Y
CumulativeBody ==
  [store |-> TRUE, add |-> TRUE,
   indices |-> <<[var |-> "v_i", plus |-> 0], [var |-> "v_j", plus |-> 0]>>,
   a |-> LoadAt(<<[var |-> "v_i", plus |-> 0], [var |-> "v_j", plus |-> 0]>>),
   b |-> ExprY]
BodyForms == AddBodies \cup {NotAddBody, NotStoreBody}

IterInfos == [kind : {"S", "R"}, dom : 1..MaxDom]

\* One term of the IterSumExpr normalize_to_iter_sum returns for the dominant
\* read: the source IterVar (its position in block_info.iters) and lower_factor.
Terms(n) == [var : 1..n, lf : 1..MaxLf]

\* The epilogue block: the domain of each of its IterVars and its read
\* regions, each with the buffer's origin and the variables its indices use.
EpiReads(n) == [prod : BOOLEAN, vars : SUBSET (1..n)]
EpiBlocks ==
  UNION {[doms : {d \in SeqsUpTo(1..2, n) : Len(d) = n},
          reads : {<<r>> : r \in EpiReads(n)}]
         : n \in 1..MaxEpiIters}

\* A pointwise epilogue reading the producer's result at every one of its own
\* variables (test_decode_gemv_sigmoid).
EpiPointwise == [doms |-> <<2>>, reads |-> <<[prod |-> TRUE, vars |-> {1}]>>]

\* The decomposed dominant access of a producer with n IterVars: any terms
\* over a zero base, and a non-zero base over at most one term.
Accesses(n) ==
  [base : {0}, args : SeqsUpTo(Terms(n), MaxArgs)] \cup [base : {1}, args : SeqsUpTo(Terms(n), 1)]

\* The producers of up to m IterVars.
Producers(m) ==
  UNION {[iters : {i \in SeqsUpTo(IterInfos, n) : Len(i) = n},
          access : Accesses(n)] : n \in 1..m}

\* The layouts of the tests: a reduction with no spatial axis of its own
\* (test_reduction_no_spatial), and spatial x reduction with the micro-tile on
\* either axis and either axis last in the dominant access (test_decode_gemv_1
\* to test_decode_gemv_4).
BaseProducers ==
  {[iters |-> <<[kind |-> "S", dom |-> 1], [kind |-> "R", dom |-> MaxDom]>>,
    access |-> [base |-> 0, args |-> <<[var |-> 2, lf |-> 1]>>]]} \cup
  {[iters |-> <<[kind |-> "S", dom |-> MaxDom], [kind |-> "R", dom |-> MaxDom]>>,
    access |-> [base |-> 0, args |-> a]] :
     a \in { <<[var |-> 1, lf |-> 1], [var |-> 2, lf |-> MaxLf]>>,
             <<[var |-> 2, lf |-> MaxLf], [var |-> 1, lf |-> 1]>>,
             <<[var |-> 1, lf |-> MaxLf], [var |-> 2, lf |-> 1]>>,
             <<[var |-> 2, lf |-> 1], [var |-> 1, lf |-> MaxLf]>> }}

\* The layouts of the tests with their unit batch axis: a spatial IterVar of
\* domain 1 ahead of the spatial and the reduction one, under any access.
BatchProducers ==
  {[iters |-> <<[kind |-> "S", dom |-> 1], [kind |-> "S", dom |-> ds], [kind |-> "R", dom |-> dr]>>,
    access |-> [base |-> 0, args |-> a]] :
     ds \in 1..MaxDom, dr \in 1..MaxDom, a \in SeqsUpTo(Terms(3), MaxArgs)}

HasReduceIter(iters) == \E i \in 1..Len(iters) : iters[i].kind = "R"

Cand(nb, red, nw, body, inj, prod, epi) ==
  [nblocks |-> nb, isReduction |-> red, nwrites |-> nw, body |-> body,
   epiInjective |-> inj, iters |-> prod.iters, access |-> prod.access, epi |-> epi]

\* Candidates that vary what the pattern check looks at.
MatchCands ==
  {Cand(nb, red, nw, body, inj, prod, EpiPointwise) :
     nb \in 0..3, red \in BOOLEAN, nw \in 0..2, body \in BodyForms,
     inj \in BOOLEAN, prod \in BaseProducers}

\* Candidates that pass the pattern check and vary the producer.
ShapeCands(m) ==
  {Cand(1, TRUE, 1, CumulativeBody, TRUE, prod, EpiPointwise) :
     prod \in {p \in Producers(m) : HasReduceIter(p.iters)} \cup BatchProducers}

\* Candidates that pass the pattern check and vary the epilogue.
EpiCands ==
  {Cand(2, TRUE, 1, CumulativeBody, TRUE, prod, epi) :
     prod \in BaseProducers, epi \in EpiBlocks}

Cands(m) == MatchCands \cup ShapeCands(m) \cup EpiCands

\* Candidates whose emitted kernel is run: the layouts of the tests at every
\* extent, with unit batch axes before the spatial axis or without, without
\* an epilogue, with a pointwise one and with one that reads a single
\* result element across its own domain.
EpiReplicate == [doms |-> <<2>>, reads |-> <<[prod |-> TRUE, vars |-> {}]>>]

RunProducers ==
  {[iters |-> <<[kind |-> "S", dom |-> ds], [kind |-> "R", dom |-> dr]>>,
    access |-> [base |-> 0, args |-> a]] :
     ds \in 1..MaxDom, dr \in 1..MaxDom,
     a \in {<<[var |-> 1, lf |-> l1], [var |-> 2, lf |-> l2]>> : l1 \in 1..MaxLf, l2 \in 1..MaxLf}
        \cup {<<[var |-> 2, lf |-> l2], [var |-> 1, lf |-> l1]>> : l1 \in 1..MaxLf, l2 \in 1..MaxLf}
        \cup {<<[var |-> 2, lf |-> l2]>> : l2 \in 1..MaxLf}} \cup
  {[iters |-> <<[kind |-> "S", dom |-> 1], [kind |-> "S", dom |-> ds], [kind |-> "R", dom |-> dr]>>,
    access |-> [base |-> 0, args |-> a]] :
     ds \in 2..MaxDom, dr \in 2..MaxDom,
     a \in {<<[var |-> 2, lf |-> l1], [var |-> 3, lf |-> l2]>> : l1 \in 1..MaxLf, l2 \in 1..MaxLf}
        \cup {<<[var |-> 3, lf |-> l2], [var |-> 2, lf |-> l1]>> : l1 \in 1..MaxLf, l2 \in 1..MaxLf}}

RunCands ==
  {Cand(1, TRUE, 1, CumulativeBody, TRUE, prod, EpiPointwise) : prod \in RunProducers} \cup
  {Cand(2, TRUE, 1, CumulativeBody, TRUE, prod, epi) :
     prod \in RunProducers, epi \in {EpiPointwise, EpiReplicate}}

\* ------------------------------------------------------------------ state
VARIABLES
  func,     \* the caller's candidate region
  pc,       \* where the invocation is
  sch,      \* the schedule private to the invocation
  ret,      \* what _normalize returned
  result,   \* what apply returned: "pending", "None", "sch" or "raised"
  round,    \* 1: the caller's candidate; 2: the rule re-applied to its output
  gb,       \* the grid block (blockIdx.x value) being executed
  done,     \* the nests of that grid block already executed
  mem,      \* the buffers the executed nests wrote
  reads,    \* the read regions of a producer block, in the order of block.reads
  dominant  \* what _detect_dominant_read made of them

vars == <<func, pc, sch, ret, result, round, gb, done, mem, reads, dominant>>

\* ------------------------------------------------- the private schedule
\* One loop over each IterVar of the producer, outermost first.  A loop is a
\* list of parts; a part covers IterVar iv in steps of mul over ext values.
IterLoop(iters, i) == <<[iv |-> i, mul |-> 1, ext |-> iters[i].dom]>>

\* tir.Schedule(func): a schedule of its own over a copy of the region.
NewSchedule(f) ==
  [loops |-> [i \in 1..Len(f.iters) |-> IterLoop(f.iters, i)],
   nests |-> <<>>,
   scope |-> [rf |-> "none", out |-> "global"],
   strategy |-> "none", T |-> 0, broadcast |-> FALSE, by_value |-> TRUE]

NoRet == [status |-> "none", inner |-> FALSE, c_factor |-> 0]
NoMem == [rf |-> <<>>, out |-> <<>>, early |-> FALSE, reads |-> <<>>]
NoRead == [status |-> "none", index |-> 0]

Start(cands) ==
  /\ func \in cands
  /\ pc = "start"
  /\ sch = NewSchedule(func)
  /\ ret = NoRet
  /\ result = "pending"
  /\ round = 1
  /\ gb = 0
  /\ done = <<>>
  /\ mem = NoMem
  /\ reads = <<>>
  /\ dominant = NoRead

Init == Start(Cands(MaxIters))
InitRun == Start(RunCands)

\* ------------------------------------------------------- dominant read
\* One dimension of a read region: the variables of its min and its extent.
\* The block's variables are a spatial one and a reduction one.
RegionDims ==
  [vars : {{}, {"v_i"}, {"v_k"}}, extent : {1}] \cup {[vars |-> {}, extent |-> 2]}
Regions(rank) == SeqsUpTo(RegionDims, rank)
ReadLists(m) == SeqsUpTo(Regions(MaxRank), m)

\* _collect_vars_used_in_access_region on a region of the block's reads:
\* the set of the variables of every min, or the failed assert on an extent.
RegionVars(region) ==
  IF \E d \in 1..Len(region) : region[d].extent # 1
    THEN [status |-> "raised", vars |-> {}]
    ELSE [status |-> "ok", vars |-> UNION {region[d].vars : d \in 1..Len(region)}]

\* The loop with `<=` for `<`: the last of the regions with the most variables.
RECURSIVE DominantFromLast(_, _, _)
DominantFromLast(rs, k, st) ==
  IF st.status = "raised" \/ k > Len(rs) THEN st
  ELSE LET tir_vars == RegionVars(rs[k])
       IN IF tir_vars.status = "raised" THEN [st EXCEPT !.status = "raised"]
          ELSE IF st.num <= Cardinality(tir_vars.vars)
            THEN DominantFromLast(rs, k + 1, [st EXCEPT !.num = Cardinality(tir_vars.vars), !.index = k])
            ELSE DominantFromLast(rs, k + 1, st)

\* `for buffer_region in block.reads` of _detect_dominant_read, from read k
\* on: st holds num_read_iters and the position of dominant_read.
RECURSIVE DominantFrom(_, _, _)
DominantFrom(rs, k, st) ==
  IF st.status = "raised" \/ k > Len(rs) THEN st
  ELSE LET tir_vars == RegionVars(rs[k])
       IN IF tir_vars.status = "raised" THEN [st EXCEPT !.status = "raised"]
          ELSE IF st.num < Cardinality(tir_vars.vars)
            THEN DominantFrom(rs, k + 1, [st EXCEPT !.num = Cardinality(tir_vars.vars), !.index = k])
            ELSE DominantFrom(rs, k + 1, st)

\* _detect_dominant_read: the position of the read it returns the offset of,
\* or the failed assert.
DominantRead(rs) ==
  LET st == DominantFrom(rs, 1, [status |-> "ok", num |-> -1, index |-> 0])
  IN IF st.status = "raised" \/ st.index = 0
       THEN [status |-> "raised", index |-> 0]
       ELSE [status |-> "ok", index |-> st.index]

\* A block for the rule to find the dominant read of.
IdleFunc ==
  Cand(1, TRUE, 1, CumulativeBody, TRUE,
       [iters |-> <<>>, access |-> [base |-> 0, args |-> <<>>]], EpiPointwise)

InitRead ==
  /\ func = IdleFunc
  /\ pc = "reads"
  /\ sch = NewSchedule(func)
  /\ ret = NoRet
  /\ result = "pending"
  /\ round = 1
  /\ gb = 0
  /\ done = <<>>
  /\ mem = NoMem
  /\ reads \in ReadLists(MaxReads)
  /\ dominant = NoRead

DetectDominantRead ==
  /\ pc = "reads"
  /\ dominant' = DominantRead(reads)
  /\ pc' = "selected"
  /\ UNCHANGED <<func, sch, ret, result, round, gb, done, mem, reads>>

\* ------------------------------------------------------- pattern check
\* _get_reduction_expr: Y of X[idx] = X[idx] + Y, or nothing.
\* ir.structural_equal(lhs, rhs, map_free_vars=True) on two operands: loads
\* of the buffer with indices of the same form under a one-to-one renaming of
\* the variables.
StructuralEqual(lhs, rhs) ==
  /\ lhs.load /\ rhs.load
  /\ DOMAIN lhs.idx = DOMAIN rhs.idx
  /\ \A p \in DOMAIN lhs.idx : lhs.idx[p].plus = rhs.idx[p].plus
  /\ \A p, q \in DOMAIN lhs.idx :
       (lhs.idx[p].var = lhs.idx[q].var) <=> (rhs.idx[p].var = rhs.idx[q].var)

\* The helper comparing either operand of the addition with the load.
GetReductionExprEitherSide(body) ==
  IF ~body.store THEN "None"
  ELSE IF ~body.add THEN "None"
  ELSE IF StructuralEqual(body.a, LoadAt(body.indices)) THEN "b"
  ELSE IF StructuralEqual(body.b, LoadAt(body.indices)) THEN "a"
  ELSE "None"

GetReductionExpr(body) ==
  IF ~body.store THEN "None"
  ELSE IF ~body.add THEN "None"
  ELSE IF ~StructuralEqual(body.a, LoadAt(body.indices)) THEN "None"
  ELSE "b"

\* The pattern check without `len(block_stmt.writes) != 1`.
PatternOkAnyWrites(f) ==
  /\ f.nblocks \in {1, 2}
  /\ f.nblocks = 2 => f.epiInjective
  /\ f.isReduction
  /\ GetReductionExpr(f.body) # "None"

\* The pattern check without `if not epilogue.is_injective()`.
PatternOkAnyEpilogue(f) ==
  /\ f.nblocks \in {1, 2}
  /\ f.isReduction
  /\ f.nwrites = 1
  /\ GetReductionExpr(f.body) # "None"

\* apply, up to Step 1: TRUE when the candidate goes on to _normalize.
PatternOk(f) ==
  /\ f.nblocks \in {1, 2}
  /\ f.nblocks = 2 => f.epiInjective
  /\ f.isReduction
  /\ f.nwrites = 1
  /\ GetReductionExpr(f.body) # "None"

HasEpilogue(f) == f.nblocks = 2

\* apply, to the end of Step 1.  normalize_prim_func may find no normal form
\* for the function (block_infos is None), whatever its blocks.
ApplyMatch ==
  /\ pc = "start"
  /\ \E normal \in BOOLEAN :
       IF normal /\ PatternOk(func)
         THEN pc' = "matched" /\ result' = result
         ELSE pc' = "returned" /\ result' = "None"
  /\ UNCHANGED <<reads, dominant, func, sch, ret, round, gb, done, mem>>

\* ---------------------------------------------------------- _normalize
\* sch.split(loop, factors=[None, factor]) on the k-th loop of the nest: the
\* outer loop takes the ceiling of the quotient, the inner one the factor.
SplitOuter(loop, factor) ==
  <<[iv |-> loop[1].iv, mul |-> loop[1].mul * factor, ext |-> Ceil(loop[1].ext, factor)]>>
SplitInner(loop, factor) ==
  <<[iv |-> loop[1].iv, mul |-> loop[1].mul, ext |-> factor]>>

LoopOf(loops, var) == CHOOSE k \in 1..Len(loops) : loops[k][1].iv = var

SplitAt(loops, k, factor) ==
  SubSeq(loops, 1, k - 1) \o <<SplitOuter(loops[k], factor), SplitInner(loops[k], factor)>>
    \o SubSeq(loops, k + 1, Len(loops))

\* sch.add_unit_loop(block)
UnitLoop == <<[iv |-> 0, mul |-> 1, ext |-> 1]>>

\* A fuse that keeps the first of the loops only.
FuseFirst(loops) == IF loops = <<>> THEN <<>> ELSE Head(loops)

\* sch.fuse(*loops): one loop over the parts of all of them, the first
\* outermost.
RECURSIVE Fuse(_)
Fuse(loops) == IF loops = <<>> THEN <<>> ELSE Head(loops) \o Fuse(Tail(loops))

Extent(loop) == Prod([k \in 1..Len(loop) |-> loop[k].ext])

\* The locals of _normalize before the first term.
NormStart(f, s) ==
  [status |-> "run", rest |-> 1..Len(f.iters), s_loops |-> <<>>, r_loops |-> <<>>,
   c_loops |-> <<>>, c_factor |-> 0, inner |-> FALSE, loops |-> s.loops]

\* The loop body with is_inner_reduction assigned only where the term is
\* split, so that the flag tells the kind of the split loop.
NormTermSplitKind(f, st, term) ==
  IF st.status # "run" THEN st
  ELSE IF term.var \notin st.rest THEN [st EXCEPT !.status = "raised"]
  ELSE
    LET info == f.iters[term.var]
        inner == info.kind = "R"
        k == LoopOf(st.loops, term.var)
        st1 == [st EXCEPT !.rest = @ \ {term.var}, !.inner = IF term.lf > 1 THEN inner ELSE @]
    IN IF term.lf > 1 /\ st.c_loops # <<>> THEN [st1 EXCEPT !.status = "none"]
       ELSE
         LET split == term.lf > 1
             loops2 == IF split THEN SplitAt(st.loops, k, term.lf) ELSE st.loops
             loop == loops2[k]
             st2 == [st1 EXCEPT
                       !.loops = loops2,
                       !.c_loops = IF split THEN <<loops2[k + 1]>> ELSE @,
                       !.c_factor = IF split /\ ~inner THEN term.lf ELSE @]
         IN IF inner THEN [st2 EXCEPT !.r_loops = Append(@, loop)]
                     ELSE [st2 EXCEPT !.s_loops = Append(@, loop)]

\* The loop body without `if c_loops: return None, None`: a later split
\* takes the place of the earlier one.
NormTermSecondSplit(f, st, term) ==
  IF st.status # "run" THEN st
  ELSE IF term.var \notin st.rest THEN [st EXCEPT !.status = "raised"]
  ELSE
    LET info == f.iters[term.var]
        inner == info.kind = "R"
        k == LoopOf(st.loops, term.var)
        st1 == [st EXCEPT !.rest = @ \ {term.var}, !.inner = inner]
    IN IF FALSE THEN st1
       ELSE
         LET split == term.lf > 1
             loops2 == IF split THEN SplitAt(st.loops, k, term.lf) ELSE st.loops
             loop == loops2[k]
             st2 == [st1 EXCEPT
                       !.loops = loops2,
                       !.c_loops = IF split THEN <<loops2[k + 1]>> ELSE @,
                       !.c_factor = IF split /\ ~inner THEN term.lf ELSE @]
         IN IF inner THEN [st2 EXCEPT !.r_loops = Append(@, loop)]
                     ELSE [st2 EXCEPT !.s_loops = Append(@, loop)]

\* The body of `for split_expr in access.args`.
NormTerm(f, st, term) ==
  IF st.status # "run" THEN st
  ELSE IF term.var \notin st.rest THEN [st EXCEPT !.status = "raised"]
  ELSE
    LET info == f.iters[term.var]
        inner == info.kind = "R"
        k == LoopOf(st.loops, term.var)
        st1 == [st EXCEPT !.rest = @ \ {term.var}, !.inner = inner]
    IN IF term.lf > 1 /\ st.c_loops # <<>> THEN [st1 EXCEPT !.status = "none"]
       ELSE
         LET split == term.lf > 1
             loops2 == IF split THEN SplitAt(st.loops, k, term.lf) ELSE st.loops
             loop == loops2[k]
             st2 == [st1 EXCEPT
                       !.loops = loops2,
                       !.c_loops = IF split THEN <<loops2[k + 1]>> ELSE @,
                       !.c_factor = IF split /\ ~inner THEN term.lf ELSE @]
         IN IF inner THEN [st2 EXCEPT !.r_loops = Append(@, loop)]
                     ELSE [st2 EXCEPT !.s_loops = Append(@, loop)]

RECURSIVE NormTerms(_, _, _)
NormTerms(f, st, args) ==
  IF args = <<>> THEN st ELSE NormTerms(f, NormTerm(f, st, Head(args)), Tail(args))

\* The loop over the IterVars left with `info.dom == 1` dropped from its
\* test: every Spatial IterVar left is appended.
RECURSIVE NormRestAnySpatial(_, _, _)
NormRestAnySpatial(f, st, i) ==
  IF st.status # "run" \/ i > Len(f.iters) THEN st
  ELSE IF i \notin st.rest THEN NormRestAnySpatial(f, st, i + 1)
  ELSE IF f.iters[i].kind = "S"
    THEN NormRestAnySpatial(f, [st EXCEPT !.s_loops = Append(@, st.loops[LoopOf(st.loops, i)])], i + 1)
    ELSE [st EXCEPT !.status = "none"]

\* The body of `for var, info in iter_to_info.items()`, in the order of
\* block_info.iters.
RECURSIVE NormRest(_, _, _)
NormRest(f, st, i) ==
  IF st.status # "run" \/ i > Len(f.iters) THEN st
  ELSE IF i \notin st.rest THEN NormRest(f, st, i + 1)
  ELSE IF f.iters[i].kind = "S" /\ f.iters[i].dom = 1
    THEN NormRest(f, [st EXCEPT !.s_loops = Append(@, st.loops[LoopOf(st.loops, i)])], i + 1)
    ELSE [st EXCEPT !.status = "none"]

NumSpatial(f) == Cardinality({i \in 1..Len(f.iters) : f.iters[i].kind = "S"})

\* The loops of the nest that are in none of the three groups: reorder and
\* fuse leave them where they are, outside the fused ones.
Ungrouped(st, c) ==
  SelectSeq(st.loops,
            LAMBDA l : \A k \in 1..Len(st.s_loops \o st.r_loops \o c) :
                          (st.s_loops \o st.r_loops \o c)[k] # l)

\* The return without `if not c_loops: c_loops = [sch.add_unit_loop(...)]`.
NormFinishNoUnitLoop(f, st) ==
  IF st.status # "run" THEN st
  ELSE IF st.s_loops = <<>> \/ st.r_loops = <<>> THEN [st EXCEPT !.status = "raised"]
  ELSE IF Len(st.s_loops) # NumSpatial(f) THEN [st EXCEPT !.status = "none"]
  ELSE
    LET c == st.c_loops
    IN [st EXCEPT !.status = "ok", !.c_loops = c,
                  !.loops = Ungrouped(st, c) \o <<Fuse(st.s_loops), Fuse(st.r_loops)>> \o c]

\* From the asserts to the return.
NormFinish(f, st) ==
  IF st.status # "run" THEN st
  ELSE IF st.s_loops = <<>> \/ st.r_loops = <<>> THEN [st EXCEPT !.status = "raised"]
  ELSE IF Len(st.s_loops) # NumSpatial(f) THEN [st EXCEPT !.status = "none"]
  ELSE
    LET c == IF st.c_loops = <<>> THEN <<UnitLoop>> ELSE st.c_loops
    IN [st EXCEPT !.status = "ok", !.c_loops = c,
                  !.loops = Ungrouped(st, c) \o <<Fuse(st.s_loops), Fuse(st.r_loops)>> \o c]

Normalize(f, s) ==
  IF f.access.base # 0 THEN [NormStart(f, s) EXCEPT !.status = "none"]
  ELSE NormFinish(f, NormRest(f, NormTerms(f, NormStart(f, s), f.access.args), 1))

\* Step 2 with the splits made on the caller's function instead of on a
\* schedule of its own: the domains of its IterVars become the extents of
\* the split loops.
ApplyNormalizeInPlace ==
  /\ pc = "matched"
  /\ LET st == Normalize(func, sch)
         pre == NormTerms(func, NormStart(func, sch), func.access.args)
     IN /\ sch' = [sch EXCEPT !.loops = st.loops]
        /\ ret' = [status |-> st.status, inner |-> st.inner, c_factor |-> st.c_factor]
        /\ func' = IF func.access.base # 0 THEN func
                   ELSE [func EXCEPT !.iters = [i \in 1..Len(func.iters) |->
                           [func.iters[i] EXCEPT !.dom = pre.loops[LoopOf(pre.loops, i)][1].ext]]]
        /\ CASE st.status = "ok" -> pc' = "normalized" /\ result' = result
             [] st.status = "none" -> pc' = "returned" /\ result' = "None"
             [] OTHER -> pc' = "returned" /\ result' = "raised"
  /\ UNCHANGED <<reads, dominant, round, gb, done, mem>>

\* apply, Step 2.
ApplyNormalize ==
  /\ pc = "matched"
  /\ LET st == Normalize(func, sch)
     IN /\ sch' = [sch EXCEPT !.loops = st.loops]
        /\ ret' = [status |-> st.status, inner |-> st.inner, c_factor |-> st.c_factor]
        /\ CASE st.status = "ok" -> pc' = "normalized" /\ result' = result
             [] st.status = "none" -> pc' = "returned" /\ result' = "None"
             [] OTHER -> pc' = "returned" /\ result' = "raised"
  /\ UNCHANGED <<reads, dominant, func, round, gb, done, mem>>

\* ------------------------------------------------- the emitted loop nests
\* A loop of an emitted nest walks ext values of one axis in steps of stride:
\*   "s"  the fused spatial loop          "r"  the fused reduction loop
\*   "c"  the micro-tile loop             "rf" the factored (partial sum) axis
\*   "o"  the outputs of one grid block   "e"  the epilogue's iterations
NLoop(ax, stride, ext, bind) == [ax |-> ax, stride |-> stride, ext |-> ext, bind |-> bind]

\* sch.split(loop, factors=[None, factor]): <<outer, inner>>
NSplit(loop, factor) ==
  <<NLoop(loop.ax, loop.stride * factor, Ceil(loop.ext, factor), loop.bind),
    NLoop(loop.ax, loop.stride, factor, loop.bind)>>

Nest(block, loops) == [block |-> block, loops |-> loops]

\* The split with the remainder dropped: the outer loop takes the floor.
SplitReductionFloor(r, factor) ==
  <<NLoop(r.ax, r.stride * factor, r.ext \div factor, r.bind),
    NLoop(r.ax, r.stride, factor, r.bind)>>

\* The split with its factors the other way round, factors=[len, None].
SplitReductionOuter(r, factor) ==
  <<NLoop(r.ax, r.stride * Ceil(r.ext, factor), factor, r.bind),
    NLoop(r.ax, r.stride, Ceil(r.ext, factor), r.bind)>>

\* `_, tx = sch.split(r, factors=[None, len_tx])` of _sch_inner_reduction and
\* `_, ty = sch.split(r, factors=[None, len_ty])` of _sch_inner_spatial.
SplitReduction(r, factor) == NSplit(r, factor)

\* The spatial split with a tile no larger than the loop.
SplitSpatialWithin(sl, factor) == NSplit(sl, IF sl.ext < factor THEN sl.ext ELSE factor)

\* `_, _ = sch.split(s, factors=[None, len_tx])` of _sch_inner_spatial.
SplitSpatial(sl, factor) == NSplit(sl, factor)

\* The blocks with the write-back block ahead of the update it reads.
KernelNestsEarlyCombine(init, update, wb) ==
  <<Nest("rf_init", init), Nest("wb", wb), Nest("rf_update", update)>>

\* The blocks of one grid block in program order: rfactor and
\* decompose_reduction leave the init block and the update block of the
\* factored buffer, and reverse_compute_at(block, bx) puts the write-back
\* block after them under bx.
KernelNests(init, update, wb) ==
  <<Nest("rf_init", init), Nest("rf_update", update), Nest("wb", wb)>>

\* sch.bind(loop, thread)
Bind(loop, thread) == [loop EXCEPT !.bind = thread]

\* The micro-tile loop is spatial exactly when _normalize returned a c_factor.
SpatialTile(c_factor) == c_factor # 0

\* The loops reverse_compute_at(block, bx, preserve_unit_loops=True) builds
\* around the write-back block, the spatial ones fused: one over the factored
\* axis, one over the outputs the grid block holds (tile loops of the fused
\* spatial axis times the spatial micro-tile).
WriteBackLoops(T, tile, c_ext) == <<NLoop("rf", 1, T, ""), NLoop("o", 1, tile * c_ext, "")>>

\* The fused loop reverse_compute_at(epilogue, bx) builds around the epilogue:
\* the outputs of the grid block times the epilogue's own iterations that no
\* read of the producer's result refers to.
EpiFree(epi) ==
  {j \in 1..Len(epi.doms) :
     \A k \in 1..Len(epi.reads) : epi.reads[k].prod => j \notin epi.reads[k].vars}
EpiExtent(epi, outputs) ==
  outputs * Prod([k \in 1..Len(epi.doms) |-> IF k \in EpiFree(epi) THEN epi.doms[k] ELSE 1])

\* _collect_vars_used_in_access_region
CollectVars(region) == region.vars

\* `i.dom != 1` on an IterVar of the scheduled epilogue.  i.dom is a Range
\* object and what != does between a Range and an int is the framework's:
\* compared by value the test drops the unit domains, compared as objects it
\* holds of every IterVar.  Both are kept.
DomIsNot1(dom, by_value) == IF by_value THEN dom # 1 ELSE TRUE

\* _is_broadcast_epilogue.  write_buffers holds the one buffer the producer
\* writes; a read region's prod says whether it is of that buffer.
EpilogueIters(epi, by_value) == {i \in 1..Len(epi.doms) : DomIsNot1(epi.doms[i], by_value)}

\* The test with <= in place of <.
IsBroadcastEpilogueOrEqual(epi, by_value) ==
  \E k \in 1..Len(epi.reads) :
    /\ epi.reads[k].prod
    /\ Cardinality(CollectVars(epi.reads[k])) <= Cardinality(EpilogueIters(epi, by_value))

IsBroadcastEpilogue(epi, by_value) ==
  \E k \in 1..Len(epi.reads) :
    /\ epi.reads[k].prod
    /\ Cardinality(CollectVars(epi.reads[k])) < Cardinality(EpilogueIters(epi, by_value))

\* _sch_inner_reduction, "Schedule epilogue".
EpilogueInnerReduction(s, f, bx, outputs, T) ==
  IF ~HasEpilogue(f) THEN s
  ELSE
    LET e == NLoop("e", 1, EpiExtent(f.epi, outputs), "")
    IN IF IsBroadcastEpilogue(f.epi, s.by_value)
       THEN LET sp == NSplit(e, T)
            IN [s EXCEPT !.scope.out = "shared", !.broadcast = TRUE,
                         !.nests = Append(@, Nest("epi", <<bx, sp[1], Bind(sp[2], "threadIdx.x")>>))]
       ELSE [s EXCEPT !.scope.out = "local",
                      !.nests = Append(@, Nest("epi", <<bx, e>>))]

\* _sch_inner_reduction with len_tx = T, the advisor's suggestion.
SchInnerReduction(s, f, T, c_factor) ==
  LET r == NLoop("r", 1, Extent(s.loops[2]), "")
      c == NLoop("c", 1, Extent(s.loops[3]), "")
      sp == SplitReduction(r, T)
      bx == Bind(NLoop("s", 1, Extent(s.loops[1]), ""), "blockIdx.x")
      tx == Bind(sp[2], "threadIdx.x")
      init == <<bx, tx>> \o (IF SpatialTile(c_factor) THEN <<c>> ELSE <<>>)
      wbl == WriteBackLoops(T, 1, IF SpatialTile(c_factor) THEN c.ext ELSE 1)
      wtx == Bind(wbl[1], "threadIdx.x")
      wb == IF c_factor # 0
              THEN LET ws == NSplit(wbl[2], c_factor) IN <<bx, ws[1], wtx, ws[2]>>
              ELSE <<bx, wbl[2], wtx>>
      s1 == [s EXCEPT !.strategy = "A", !.T = T, !.scope.rf = "local",
                      !.nests = KernelNests(init, <<bx, tx, sp[1], c>>, wb)]
  IN EpilogueInnerReduction(s1, f, bx, wbl[2].ext, T)

\* The epilogue step with the result's scope set to local where there is no
\* epilogue too.
EpilogueInnerSpatialAlwaysLocal(s, f, bx, outputs) ==
  IF ~HasEpilogue(f) THEN [s EXCEPT !.scope.out = "local"]
  ELSE
    LET e == NLoop("e", 1, EpiExtent(f.epi, outputs), "")
    IN IF IsBroadcastEpilogue(f.epi, s.by_value)
       THEN LET sp1 == NSplit(e, len_ty)
                sp2 == NSplit(sp1[1], len_tx)
            IN [s EXCEPT !.scope.out = "shared", !.broadcast = TRUE,
                         !.nests = Append(@, Nest("epi",
                            <<bx, sp2[1], Bind(sp2[2], "threadIdx.x"),
                              Bind(sp1[2], "threadIdx.x")>>))]
       ELSE [s EXCEPT !.scope.out = "local",
                      !.nests = Append(@, Nest("epi", <<bx, e>>))]

\* _sch_inner_spatial, "Schedule epilogue".
EpilogueInnerSpatial(s, f, bx, outputs) ==
  IF ~HasEpilogue(f) THEN s
  ELSE
    LET e == NLoop("e", 1, EpiExtent(f.epi, outputs), "")
    IN IF IsBroadcastEpilogue(f.epi, s.by_value)
       THEN LET sp1 == NSplit(e, len_ty)
                sp2 == NSplit(sp1[1], len_tx)
            IN [s EXCEPT !.scope.out = "shared", !.broadcast = TRUE,
                         !.nests = Append(@, Nest("epi",
                            <<bx, sp2[1], Bind(sp2[2], "threadIdx.x"),
                              Bind(sp1[2], "threadIdx.x")>>))]
       ELSE [s EXCEPT !.scope.out = "local",
                      !.nests = Append(@, Nest("epi", <<bx, e>>))]

\* _sch_inner_spatial
SchInnerSpatial(s, f, c_factor) ==
  LET r == NLoop("r", 1, Extent(s.loops[2]), "")
      c == NLoop("c", 1, Extent(s.loops[3]), "")
      ss == SplitSpatial(NLoop("s", 1, Extent(s.loops[1]), ""), len_tx)
      sr == SplitReduction(r, len_ty)
      bx == Bind(ss[1], "blockIdx.x")
      tx == Bind(ss[2], "threadIdx.x")
      ty == Bind(sr[2], "threadIdx.y")
      init == <<bx, tx, ty>> \o (IF SpatialTile(c_factor) THEN <<c>> ELSE <<>>)
      wbl == WriteBackLoops(len_ty, len_tx, IF SpatialTile(c_factor) THEN c.ext ELSE 1)
      wr == Bind(wbl[1], "threadIdx.y")
      wb == IF c_factor # 0
              THEN LET ws == NSplit(wbl[2], c_factor)
                   IN <<bx, Bind(ws[1], "threadIdx.x"), wr, ws[2]>>
              ELSE <<bx, Bind(wbl[2], "threadIdx.x"), wr>>
      s1 == [s EXCEPT !.strategy = "B", !.T = len_ty, !.scope.rf = "local",
                      !.nests = KernelNests(init, <<bx, tx, ty, sr[1], c>>, wb)]
  IN EpilogueInnerSpatial(s1, f, bx, wbl[2].ext)

\* utils.suggest_threads_per_block(target, [r]): a thread count.
Advisor == 1..MaxThreads

\* The ways `i.dom != 1` may compare, where the candidate has an epilogue
\* with a unit domain for it to matter.
RangeCompare(f) ==
  IF HasEpilogue(f) /\ \E i \in 1..Len(f.epi.doms) : f.epi.doms[i] = 1
    THEN BOOLEAN ELSE {TRUE}

\* The choice made by the axis of the micro-tile instead: a spatial
\* micro-tile takes the second strategy.
UseInnerReductionByTile(r) == r.inner /\ r.c_factor = 0

\* `if is_inner_reduction:` of apply, Step 3.
UseInnerReduction(r) == r.inner

\* apply, Step 3.
ApplySchedule ==
  /\ pc = "normalized"
  /\ \E T \in Advisor, by_value \in RangeCompare(func) :
       LET s == [sch EXCEPT !.by_value = by_value]
       IN sch' = IF UseInnerReduction(ret)
                   THEN SchInnerReduction(s, func, T, ret.c_factor)
                   ELSE SchInnerSpatial(s, func, ret.c_factor)
  /\ pc' = "returned"
  /\ result' = "sch"
  /\ UNCHANGED <<reads, dominant, func, ret, round, gb, done, mem>>

\* ------------------------------------------- running the emitted nests
\* The iterations of a nest for one grid block: one value per loop, the
\* first loop (bound to blockIdx.x) held at b.
RECURSIVE Iterations(_, _, _)
Iterations(loops, k, b) ==
  IF k > Len(loops) THEN {<<>>}
  ELSE {<<v>> \o rest : v \in (IF k = 1 THEN {b} ELSE 0..(loops[k].ext - 1)),
                        rest \in Iterations(loops, k + 1, b)}

RECURSIVE AxisFrom(_, _, _, _)
AxisFrom(loops, it, ax, k) ==
  IF k > Len(loops) THEN 0
  ELSE (IF loops[k].ax = ax THEN it[k] * loops[k].stride ELSE 0) + AxisFrom(loops, it, ax, k + 1)
\* The index an iteration gives an axis.
Axis(loops, it, ax) == AxisFrom(loops, it, ax, 1)

\* The value of part k of a fused loop at index idx (the last part is the
\* fastest).
PartVal(loop, idx, k) ==
  (idx \div Prod([j \in 1..(Len(loop) - k) |-> loop[k + j].ext])) % loop[k].ext

\* What a loop of the normalized triple contributes to IterVar i.
Contribution(loop, idx, i) ==
  IF \E k \in 1..Len(loop) : loop[k].iv = i
    THEN LET k == CHOOSE k \in 1..Len(loop) : loop[k].iv = i
         IN PartVal(loop, idx, k) * loop[k].mul
    ELSE 0

\* The values of the producer's IterVars at indices (si, ri, ci) of the
\* normalized (spatial, reduction, micro-tile) loops.
IterVals(s, n, si, ri, ci) ==
  [i \in 1..n |-> Contribution(s.loops[1], si, i) + Contribution(s.loops[2], ri, i)
                  + Contribution(s.loops[3], ci, i)]

\* The predicate the splits leave on the block: every index within its loop
\* and every IterVar within its domain.
InDomain(f, s, si, ri, ci) ==
  /\ si < Extent(s.loops[1]) /\ ri < Extent(s.loops[2]) /\ ci < Extent(s.loops[3])
  /\ \A i \in 1..Len(f.iters) : IterVals(s, Len(f.iters), si, ri, ci)[i] < f.iters[i].dom

\* The output element a term belongs to: its spatial coordinates.
Element(f, vals) == [i \in 1..Len(f.iters) |-> IF f.iters[i].kind = "S" THEN vals[i] ELSE 0]

NestOf(s, block) == (CHOOSE k \in 1..Len(s.nests) : s.nests[k].block = block)

\* One iteration of the factored block: its partial-sum slot, its output
\* element and the term it adds.
FactoredIteration(f, s, loops, it) ==
  LET si == Axis(loops, it, "s")
      ri == Axis(loops, it, "r")
      ci == Axis(loops, it, "c")
      vals == IterVals(s, Len(f.iters), si, ri, ci)
  IN [ok |-> InDomain(f, s, si, ri, ci),
      slot |-> ri % s.T,
      elem |-> Element(f, vals),
      term |-> vals]

\* One iteration of the write-back block: the slot it reads and the output
\* element it accumulates into.
WriteBackIteration(f, s, c_factor, loops, it) ==
  LET c_ext == IF SpatialTile(c_factor) THEN Extent(s.loops[3]) ELSE 1
      oi == Axis(loops, it, "o")
      si == Axis(loops, it, "s") + (oi \div c_ext)
      ci == oi % c_ext
  IN [ok |-> InDomain(f, s, si, 0, ci),
      slot |-> Axis(loops, it, "rf"),
      elem |-> Element(f, IterVals(s, Len(f.iters), si, 0, ci))]

\* The partial-sum slots the init block clears for grid block b.
InitKeys(f, s, c_factor, b) ==
  LET loops == s.nests[NestOf(s, "rf_init")].loops
  IN {<<r.slot, r.elem>> :
        r \in {FactoredIteration(f, s, loops, it) : it \in
                 {x \in Iterations(loops, 1, b) :
                    InDomain(f, s, Axis(loops, x, "s"), 0, Axis(loops, x, "c"))}}}

\* rf[slot, elem] after the update block ran for grid block b: the bag of the
\* terms its iterations added.
UpdateSums(f, s, b) ==
  LET loops == s.nests[NestOf(s, "rf_update")].loops
      live == {it \in Iterations(loops, 1, b) :
                 InDomain(f, s, Axis(loops, it, "s"), Axis(loops, it, "r"), Axis(loops, it, "c"))}
      recs == {<<it, FactoredIteration(f, s, loops, it)>> : it \in live}
      keys == {<<p[2].slot, p[2].elem>> : p \in recs}
  IN [key \in keys |->
        LET mine == {p \in recs : <<p[2].slot, p[2].elem>> = key}
        IN [t \in {p[2].term : p \in mine} |-> Cardinality({p \in mine : p[2].term = t})]]

\* The iterations of the write-back block for grid block b.
WriteBacks(f, s, c_factor, b) ==
  LET loops == s.nests[NestOf(s, "wb")].loops
  IN {r \in {WriteBackIteration(f, s, c_factor, loops, it) : it \in Iterations(loops, 1, b)} : r.ok}

RECURSIVE BagSum(_, _)
BagSum(bags, keys) ==
  IF keys = {} THEN EmptyBag
  ELSE LET k == CHOOSE k \in keys : TRUE IN bags[k] (+) BagSum(bags, keys \ {k})

Merge(old, new) ==
  [k \in DOMAIN old \cup DOMAIN new |-> IF k \in DOMAIN new THEN new[k] ELSE old[k]]

\* The effect of one nest on the buffers.  A read of a slot or element no
\* earlier nest wrote is recorded in early.
RunBlock(f, s, c_factor, b, block, m) ==
  CASE block = "rf_init" ->
         [m EXCEPT !.rf = Merge(@, [k \in InitKeys(f, s, c_factor, b) |-> EmptyBag])]
    [] block = "rf_update" ->
         LET sums == UpdateSums(f, s, b)
         IN [m EXCEPT !.rf = Merge(@, [k \in DOMAIN sums |->
                                         IF k \in DOMAIN m.rf THEN m.rf[k] (+) sums[k] ELSE sums[k]]),
                      !.early = @ \/ \E k \in DOMAIN sums : k \notin DOMAIN m.rf]
    [] block = "wb" ->
         LET wbs == WriteBacks(f, s, c_factor, b)
             elems == {r.elem : r \in wbs}
             slots(e) == {r.slot : r \in {x \in wbs : x.elem = e}}
             have(e) == {t \in slots(e) : <<t, e>> \in DOMAIN m.rf}
         IN [m EXCEPT !.out = Merge(@, [e \in elems |->
                                          BagSum([t \in have(e) |-> m.rf[<<t, e>>]], have(e))]),
                      !.reads = Merge(@, [e \in elems |-> slots(e)]),
                      !.early = @ \/ \E e \in elems : have(e) # slots(e)]
    [] block = "epi" ->
         LET wanted == {r.elem : r \in WriteBacks(f, s, c_factor, b)}
         IN [m EXCEPT !.early = @ \/ \E e \in wanted : e \notin DOMAIN m.out]

GridExtent(s) == s.nests[1].loops[1].ext

\* The threads of a grid block: the launch extent of a thread axis is the
\* largest extent a loop bound to it has.
LaunchExtent(s, thread) ==
  LET bound == UNION {{s.nests[k].loops[j].ext :
                         j \in {i \in 1..Len(s.nests[k].loops) : s.nests[k].loops[i].bind = thread}} :
                      k \in 1..Len(s.nests)}
  IN IF bound = {} THEN 1 ELSE CHOOSE e \in bound : \A d \in bound : d <= e
Threads(s) ==
  (0..(LaunchExtent(s, "threadIdx.x") - 1)) \X (0..(LaunchExtent(s, "threadIdx.y") - 1))

\* The iterations of a nest thread th = <<threadIdx.x, threadIdx.y>> of grid
\* block b executes: a loop bound to a thread axis is held at the thread's
\* index on it, a loop with no binding runs whole on every thread.
RECURSIVE ThreadIterations(_, _, _, _)
ThreadIterations(loops, k, b, th) ==
  IF k > Len(loops) THEN {<<>>}
  ELSE LET all == 0..(loops[k].ext - 1)
           vs == IF loops[k].bind = "blockIdx.x" THEN {b}
                 ELSE IF loops[k].bind = "threadIdx.x" THEN {th[1]} \cap all
                 ELSE IF loops[k].bind = "threadIdx.y" THEN {th[2]} \cap all
                 ELSE all
       IN {<<v>> \o rest : v \in vs, rest \in ThreadIterations(loops, k + 1, b, th)}

\* The result elements the write-back block writes on thread th.
WrittenBy(f, s, c_factor, b, th) ==
  LET loops == s.nests[NestOf(s, "wb")].loops
  IN {r.elem : r \in {x \in {WriteBackIteration(f, s, c_factor, loops, it) :
                               it \in ThreadIterations(loops, 1, b, th)} : x.ok}}

\* One iteration of the epilogue: the result element it reads.  The fused
\* epilogue loop walks the outputs of the grid block, and within one output
\* the epilogue's own free iterations.
EpilogueIteration(f, s, c_factor, loops, it) ==
  LET c_ext == IF SpatialTile(c_factor) THEN Extent(s.loops[3]) ELSE 1
      free == Prod([k \in 1..Len(f.epi.doms) |-> IF k \in EpiFree(f.epi) THEN f.epi.doms[k] ELSE 1])
      oi == Axis(loops, it, "e") \div free
      si == Axis(loops, it, "s") + (oi \div c_ext)
      ci == oi % c_ext
  IN [ok |-> InDomain(f, s, si, 0, ci),
      elem |-> Element(f, IterVals(s, Len(f.iters), si, 0, ci))]

\* The result elements the epilogue reads on thread th.
ReadBy(f, s, c_factor, b, th) ==
  LET loops == s.nests[NestOf(s, "epi")].loops
  IN {r.elem : r \in {x \in {EpilogueIteration(f, s, c_factor, loops, it) :
                               it \in ThreadIterations(loops, 1, b, th)} : x.ok}}

\* The kernel of a returned schedule starts on one of its grid blocks.
ExecStart ==
  /\ pc = "returned" /\ result = "sch" /\ round = 1
  /\ \E b \in 0..(GridExtent(sch) - 1) : gb' = b
  /\ pc' = "exec"
  /\ UNCHANGED <<reads, dominant, func, sch, ret, result, round, done, mem>>

\* The next nest of the grid block, in the order the schedule holds them.
RunNest ==
  /\ pc = "exec"
  /\ Len(done) < Len(sch.nests)
  /\ LET block == sch.nests[Len(done) + 1].block
     IN /\ mem' = RunBlock(func, sch, ret.c_factor, gb, block, mem)
        /\ done' = Append(done, block)
  /\ UNCHANGED <<reads, dominant, func, pc, sch, ret, result, round, gb>>

\* ----------------------------------------------------------- re-entry
\* The blocks of a returned schedule, in order, as the pattern check sees
\* them: the init block of the factored buffer is spatial, the update and the
\* write-back blocks are reductions, the epilogue is injective.
BlockKind(block) == IF block \in {"rf_update", "wb"} THEN "reduction" ELSE "injective"

OutputBlocks(s) == [k \in 1..Len(s.nests) |-> s.nests[k].block]

RECURSIVE Without(_, _)
Without(blocks, gone) ==
  IF blocks = <<>> THEN <<>>
  ELSE (IF Head(blocks) \in gone THEN <<>> ELSE <<Head(blocks)>>) \o Without(Tail(blocks), gone)

\* The candidate the rule sees in its own output once try_inline_contiguous_spatial
\* has inlined the spatial blocks in `gone`.  The producer's iterations are
\* left as they were: the pattern check does not look at them.
Reentry(f, s, gone) ==
  LET blocks == Without(OutputBlocks(s), gone)
      first == IF blocks = <<>> THEN "injective" ELSE BlockKind(blocks[1])
  IN [f EXCEPT !.nblocks = Len(blocks),
               !.isReduction = first = "reduction",
               !.nwrites = 1,
               !.body = IF first = "reduction" THEN CumulativeBody ELSE NotAddBody,
               !.epiInjective = Len(blocks) >= 2 /\ BlockKind(blocks[2]) = "injective"]

\* The caller hands the returned schedule's function to the rule again.
Reapply ==
  /\ pc = "returned" /\ result = "sch" /\ round = 1
  /\ \E gone \in SUBSET {b \in {"rf_init", "epi"} : \E k \in 1..Len(sch.nests) : sch.nests[k].block = b} :
       func' = Reentry(func, sch, gone)
  /\ sch' = NewSchedule(func')
  /\ pc' = "start" /\ round' = 2 /\ ret' = NoRet /\ result' = "pending"
  /\ UNCHANGED <<reads, dominant, gb, done, mem>>

\* The rule, and the caller that hands it its own output.
Next ==
  \/ ApplyMatch
  \/ ApplyNormalize
  \/ ApplySchedule
  \/ Reapply

Spec == Init /\ [][Next]_vars

\* The rule, and the kernel of the schedule it returns.
NextRun ==
  \/ ApplyMatch
  \/ ApplyNormalize
  \/ ApplySchedule
  \/ ExecStart
  \/ RunNest

SpecRun == InitRun /\ [][NextRun]_vars

\* _detect_dominant_read on the reads of a block.
NextRead == DetectDominantRead

SpecRead == InitRead /\ [][NextRead]_vars

\* ------------------------------------------------------------ properties
Scheduled == pc \in {"returned", "exec"} /\ result = "sch"
NoMatch == pc = "returned" /\ result = "None"
Ran(block) == \E k \in 1..Len(done) : done[k] = block
LoopsOf(block) == sch.nests[NestOf(sch, block)].loops
\* The loops of a block bound to a thread axis, as <<axis walked, thread, extent>>.
ThreadLoops(block) ==
  {<<LoopsOf(block)[k].ax, LoopsOf(block)[k].bind, LoopsOf(block)[k].ext>> :
     k \in {j \in 1..Len(LoopsOf(block)) : LoopsOf(block)[j].bind \notin {"", "blockIdx.x"}}}
ThreadShape(block) == {<<l[2], l[3]>> : l \in ThreadLoops(block)}

LastTerm(f) == f.access.args[Len(f.access.args)]
LastTermKind(f) == IF f.access.args = <<>> THEN "none" ELSE f.iters[LastTerm(f).var].kind
\* The kinds of the IterVars whose loop the micro-tile split was made on.
SplitKinds(f) ==
  {f.iters[f.access.args[k].var].kind : k \in {j \in 1..Len(f.access.args) : f.access.args[j].lf > 1}}
\* The number of output elements, and the extent of the flattened spatial
\* loop once a spatial micro-tile is split off it.
NumOutputs(f) == Prod([i \in 1..Len(f.iters) |-> IF f.iters[i].kind = "S" THEN f.iters[i].dom ELSE 1])
TileOf(f, i) ==
  IF \E k \in 1..Len(f.access.args) : f.access.args[k].var = i /\ f.access.args[k].lf > 1
    THEN (CHOOSE t \in {f.access.args[k] : k \in 1..Len(f.access.args)} : t.var = i /\ t.lf > 1).lf
    ELSE 1
FlatSpatial(f) ==
  Prod([i \in 1..Len(f.iters) |->
          IF f.iters[i].kind = "S" THEN Ceil(f.iters[i].dom, TileOf(f, i)) ELSE 1])

\* C1: apply returns None for every candidate whose block count is not 1 or
\* 2, whose second block is not injective, or whose first block is not a
\* reduction, does not write exactly one region, or has a body that is not
\* X[idx] = X[idx] + Y.
\* X[idx] = X[idx] + Y: a store of an addition whose left operand loads the
\* stored buffer at the store's indices, the names of the variables apart.
SameUpToRenaming(ix, jx) ==
  \E ren \in [{"v_i", "v_j"} -> {"v_i", "v_j"}] :
     /\ ren["v_i"] # ren["v_j"]
     /\ jx = [p \in DOMAIN ix |-> [var |-> ren[ix[p].var], plus |-> ix[p].plus]]
CumulativeForm(body) ==
  /\ body.store /\ body.add
  /\ body.a.load
  /\ SameUpToRenaming(body.a.idx, body.indices)
ShapeViolated(f) ==
  \/ f.nblocks \notin {1, 2}
  \/ f.nblocks = 2 /\ ~f.epiInjective
  \/ ~f.isReduction
  \/ f.nwrites # 1
  \/ ~CumulativeForm(f.body)
C1_NoMatchOnShape == (pc # "start" /\ ShapeViolated(func)) => NoMatch
C1_TwoWritesRejected ==
  /\ NoMatch /\ round = 1
  /\ func.nblocks = 1 /\ func.isReduction /\ func.body = CumulativeBody /\ func.nwrites = 2

\* C2 as stated: where _normalize succeeds, innerReduction is true exactly
\* when a micro-tile split occurred and the split loop belongs to a Reduce
\* IterVar.
C2_FlagIsSplitKind == (ret.status = "ok") => (ret.inner <=> "R" \in SplitKinds(func))
\* C2: where _normalize succeeds, innerReduction is true exactly when the
\* IterVar of the last term of the decomposed dominant access is Reduce,
\* whether a micro-tile was split off and whichever loop it was split off;
\* c_factor is returned exactly when the split loop is spatial.
C2_FlagIsLastTermKind ==
  (ret.status = "ok") =>
     /\ ret.inner <=> LastTermKind(func) = "R"
     /\ ret.c_factor # 0 <=> "S" \in SplitKinds(func)
C2_SpatialTileInnerReduction ==
  pc = "normalized" /\ ret.inner /\ ret.c_factor # 0 /\ SplitKinds(func) = {"S"}

\* C3: in either strategy the write-back block reads, for every output
\* element of the grid block, exactly as many partial sums as the extent T of
\* the thread loop the reduction was factored over, and their sum is the
\* reduction of the producer over its whole reduction domain, each term once.
AllVals(f) ==
  {v \in [1..Len(f.iters) -> 0..(MaxDom - 1)] : \A i \in 1..Len(f.iters) : v[i] < f.iters[i].dom}
WholeReduction(f, e) == SetToBag({v \in AllVals(f) : Element(f, v) = e})
FactoredExtent ==
  (CHOOSE l \in ThreadLoops("rf_update") : l[1] = "r")[3]
C3_CombineIsWholeReduction ==
  Ran("wb") =>
     /\ DOMAIN mem.out # {}
     /\ \A e \in DOMAIN mem.out :
          /\ Cardinality(mem.reads[e]) = FactoredExtent
          /\ mem.out[e] = WholeReduction(func, e)
C3_RaggedCombine ==
  /\ Ran("wb") /\ sch.strategy = "A"
  /\ Extent(sch.loops[2]) > sch.T /\ Extent(sch.loops[2]) % sch.T # 0
  /\ Extent(sch.loops[3]) > 1

\* C4 as stated: with an epilogue, broadcast is true exactly when some read of
\* the producer's buffer uses a strict subset of the epilogue's IterVars of
\* domain other than 1, the buffer then being shared and otherwise local.
\* Taken where the domains are compared by value.
NonTrivial(epi) == {i \in 1..Len(epi.doms) : epi.doms[i] # 1}
StrictSubsetRead(epi) ==
  \E k \in 1..Len(epi.reads) :
     /\ epi.reads[k].prod
     /\ epi.reads[k].vars \subseteq NonTrivial(epi)
     /\ epi.reads[k].vars # NonTrivial(epi)
C4_BroadcastIsStrictSubset ==
  (Scheduled /\ HasEpilogue(func) /\ sch.by_value) =>
     /\ sch.broadcast <=> StrictSubsetRead(func.epi)
     /\ sch.scope.out = IF sch.broadcast THEN "shared" ELSE "local"
\* C4: with an epilogue, broadcast is true exactly when some read of the
\* producer's buffer uses fewer distinct variables than the epilogue has
\* IterVars passing `dom != 1` (a comparison of counts, not of sets); the
\* producer's buffer is then shared, and otherwise broadcast is false and the
\* buffer is local.
FewerVarsRead(epi, by_value) ==
  \E k \in 1..Len(epi.reads) :
     /\ epi.reads[k].prod
     /\ Cardinality(epi.reads[k].vars)
          < Cardinality({i \in 1..Len(epi.doms) : ~by_value \/ epi.doms[i] # 1})
C4_BroadcastIsFewerVars ==
  (Scheduled /\ HasEpilogue(func)) =>
     /\ sch.broadcast <=> FewerVarsRead(func.epi, sch.by_value)
     /\ sch.scope.out = IF sch.broadcast THEN "shared" ELSE "local"
C4_BroadcastOutsideSubset ==
  /\ Scheduled /\ HasEpilogue(func) /\ sch.by_value
  /\ sch.broadcast /\ sch.scope.out = "shared"
  /\ ~StrictSubsetRead(func.epi)

\* C5: with a broadcast epilogue, in either strategy the epilogue's
\* thread-bound loops have the thread axes and extents of the producer's: T
\* on threadIdx.x in the first strategy, 16 on threadIdx.x and 16 on
\* threadIdx.y in the second.
C5_EpilogueThreadsAsProducer ==
  (Scheduled /\ sch.broadcast) => ThreadShape("epi") = ThreadShape("rf_update")

\* C6 as stated: in the first strategy the flattened spatial loop is bound to
\* blockIdx.x with as many grid blocks as output elements, the factored
\* reduction loop is bound to threadIdx.x with the advisor's extent T, and the
\* write-back block's loop over the partial sums is bound to threadIdx.x with
\* extent T.
InnerReductionShape(grid) ==
  /\ \A k \in 1..Len(sch.nests) :
       /\ sch.nests[k].loops[1].bind = "blockIdx.x"
       /\ sch.nests[k].loops[1].ax = "s"
       /\ sch.nests[k].loops[1].ext = grid
  /\ ThreadLoops("rf_update") = {<<"r", "threadIdx.x", sch.T>>}
  /\ ThreadLoops("wb") = {<<"rf", "threadIdx.x", sch.T>>}
C6_GridIsOutputs ==
  (Scheduled /\ ret.inner) => InnerReductionShape(NumOutputs(func))
\* C6: in the first strategy the flattened spatial loop is bound to
\* blockIdx.x with one grid block per iteration of that loop: per output
\* element when no spatial micro-tile was split off, and per c_factor output
\* elements (the split IterVar's domain over c_factor, rounded up) when one
\* was; the factored reduction loop and the write-back block's loop over the
\* partial sums are bound to threadIdx.x with the advisor's extent T.
C6_GridIsFlatSpatial ==
  (Scheduled /\ ret.inner) =>
     /\ InnerReductionShape(FlatSpatial(func))
     /\ ret.c_factor = 0 => FlatSpatial(func) = NumOutputs(func)
C6_GridOfTiles ==
  /\ Scheduled /\ ret.inner /\ ret.c_factor # 0
  /\ GridExtent(sch) > 1 /\ GridExtent(sch) < NumOutputs(func)

\* C7: within a grid block the init and the update of the factored buffer run
\* for all threads, then the write-back block, then the epilogue if there is
\* one; no write-back reads a partial sum before it is written and no epilogue
\* reads a result before the write-back produced it.
PhaseOrder == <<"rf_init", "rf_update", "wb", "epi">>
C8_ReentryNoMatch == (round = 2 /\ pc # "start") => NoMatch
C8_ReentryReturned == round = 2 /\ NoMatch /\ func.nblocks = 2

\* C9: no step of an invocation changes the caller's candidate, the splits of
\* _normalize being made on the invocation's own schedule also where it goes
\* on to return None, and an invocation starts from nothing an earlier one
\* left.
C9_CandidateUntouched ==
  /\ [][round' = round => func' = func]_vars
  /\ [](pc = "start" => sch = NewSchedule(func) /\ ret = NoRet /\ result = "pending")
C9_SplitThenNoMatch ==
  /\ NoMatch /\ ret.status = "none"
  /\ sch.loops # NewSchedule(func).loops
  /\ Len(func.iters) = Len(NewSchedule(func).loops)

\* C10: the strategy follows the kind of the IterVar of the last term of the
\* decomposed dominant access, whichever axis has the micro-tile.  Reduce:
\* blockIdx.x over the spatial loop and the advisor's T on threadIdx.x over the
\* reduction, a spatial micro-tile staying an inner loop of its extent.
\* Spatial: 16 on threadIdx.x over the spatial loop and 16 on threadIdx.y over
\* the reduction.
C10_StrategyByLastTerm ==
  Scheduled =>
     /\ LastTermKind(func) = "R" =>
          /\ ThreadLoops("rf_update") = {<<"r", "threadIdx.x", sch.T>>}
          /\ LoopsOf("rf_update")[1].bind = "blockIdx.x"
          /\ LoopsOf("rf_update")[1].ext = FlatSpatial(func)
          /\ \A t \in {func.access.args[k] : k \in 1..Len(func.access.args)} :
               t.lf > 1 =>
                 LET l == LoopsOf("rf_update")[Len(LoopsOf("rf_update"))]
                 IN l.ax = "c" /\ l.ext = t.lf /\ l.bind = ""
     /\ LastTermKind(func) = "S" =>
          ThreadLoops("rf_update") = {<<"s", "threadIdx.x", len_tx>>, <<"r", "threadIdx.y", len_ty>>}
C10_ReductionLastSpatialTile ==
  /\ Scheduled /\ LastTermKind(func) = "R" /\ SplitKinds(func) = {"S"}
  /\ sch.strategy = "A"
C10_SpatialLastReductionTile ==
  /\ Scheduled /\ LastTermKind(func) = "S" /\ SplitKinds(func) = {"R"}
  /\ sch.strategy = "B"

\* The terms of the dominant access name IterVars of the block, each once.
TermVars(f) == {f.access.args[k].var : k \in 1..Len(f.access.args)}
TermsDistinct(f) == Cardinality(TermVars(f)) = Len(f.access.args)
SplitTerms(f) == {k \in 1..Len(f.access.args) : f.access.args[k].lf > 1}
\* _normalize ran on the candidate and went through the terms of the access.
Routed(f) == PatternOk(f) /\ f.access.base = 0 /\ TermsDistinct(f)
Untouched(f) == (1..Len(f.iters)) \ TermVars(f)
UnitSpatial(f, i) == f.iters[i].kind = "S" /\ f.iters[i].dom = 1

\* C11: _normalize makes at most one micro-tile split: where two terms of the
\* dominant access, on two IterVars of whatever kinds, have a lower factor
\* above 1, apply returns None.
C11_SecondSplitNoMatch ==
  (round = 1 /\ pc \notin {"start", "matched"} /\ Routed(func)
     /\ Cardinality(SplitTerms(func)) >= 2) => NoMatch
C11_SplitTwiceRejected ==
  /\ round = 1 /\ NoMatch /\ Routed(func)
  /\ Cardinality(SplitTerms(func)) = 2
  /\ sch.loops # NewSchedule(func).loops
  /\ {func.iters[i].kind : i \in TermVars(func)} = {"S", "R"}

\* C12: an IterVar no term of the dominant access refers to goes to the
\* spatial group when it is Spatial with domain 1; where one is Spatial with a
\* larger domain, or Reduce, apply returns None.
C12_UntouchedUnitOrNoMatch ==
  (round = 1 /\ pc \notin {"start", "matched"} /\ Routed(func)) =>
     /\ (\E i \in Untouched(func) : ~UnitSpatial(func, i)) => NoMatch
     /\ ret.status = "ok" =>
          \A i \in Untouched(func) :
             \E k \in 1..Len(sch.loops[1]) :
                sch.loops[1][k].iv = i /\ sch.loops[1][k].ext = 1
C12_UnitSpatialAppended ==
  /\ round = 1 /\ pc = "normalized" /\ ret.status = "ok"
  /\ \E i \in Untouched(func) : UnitSpatial(func, i)
C12_WideSpatialRejected ==
  /\ round = 1 /\ NoMatch /\ Routed(func) /\ Cardinality(SplitTerms(func)) <= 1
  /\ \E i \in Untouched(func) : func.iters[i].kind = "S" /\ func.iters[i].dom > 1

\* C13: where the terms and the IterVars left have all been routed and the
\* spatial group or the reduction group is empty, apply returns None.
GroupKinds(f) ==
  {f.iters[i].kind : i \in TermVars(f)} \cup {"S" : i \in Untouched(f)}
AllRouted(f) ==
  /\ Routed(f)
  /\ Cardinality(SplitTerms(f)) <= 1
  /\ \A i \in Untouched(f) : UnitSpatial(f, i)
PartKinds(f, loop) == {IF loop[k].iv = 0 THEN "U" ELSE f.iters[loop[k].iv].kind : k \in 1..Len(loop)}
C14_ThreeLoops ==
  (round = 1 /\ ret.status = "ok") =>
     /\ Len(sch.loops) = 3
     /\ PartKinds(func, sch.loops[1]) = {"S"}
     /\ PartKinds(func, sch.loops[2]) = {"R"}
     /\ Len(sch.loops[3]) = 1
     /\ Extent(sch.loops[3]) =
          IF SplitTerms(func) = {} THEN 1
          ELSE func.access.args[CHOOSE k \in SplitTerms(func) : TRUE].lf
     /\ Scheduled =>
          Len(LoopsOf("rf_update")) = IF ret.inner THEN 4 ELSE 5
C14_UnitTileScheduled ==
  /\ round = 1 /\ Scheduled /\ SplitTerms(func) = {}
  /\ Extent(sch.loops[3]) = 1 /\ sch.loops[3][1].iv = 0
  /\ Len(LoopsOf("rf_update")) = 5

\* C15 as stated: _detect_dominant_read returns the read region with the most
\* distinct variables in its indices, the first of those that tie, and
\* returns one whenever the block has a read, also when no read has a
\* variable.
VarCount(region) == Cardinality(UNION {region[d].vars : d \in 1..Len(region)})
IsFirstLargest(rs, k) ==
  /\ k \in 1..Len(rs)
  /\ \A j \in 1..Len(rs) : VarCount(rs[j]) <= VarCount(rs[k])
  /\ \A j \in 1..(k - 1) : VarCount(rs[j]) < VarCount(rs[k])
PointReads(rs) == \A k \in 1..Len(rs) : \A d \in 1..Len(rs[k]) : rs[k][d].extent = 1
C16_FixedTile ==
  (round = 1 /\ Scheduled /\ ~ret.inner) =>
     /\ ThreadLoops("rf_init") = {<<"s", "threadIdx.x", 16>>, <<"r", "threadIdx.y", 16>>}
     /\ ThreadLoops("rf_update") = {<<"s", "threadIdx.x", 16>>, <<"r", "threadIdx.y", 16>>}
     /\ ThreadLoops("wb") = {<<"o", "threadIdx.x", 16>>, <<"rf", "threadIdx.y", 16>>}
C16_SmallExtentsFullTile ==
  /\ round = 1 /\ Scheduled /\ ~ret.inner /\ ret.c_factor # 0
  /\ Extent(sch.loops[1]) < 16 /\ Extent(sch.loops[2]) < 16
  /\ Len(LoopsOf("wb")) = 4

\* C17: where _normalize succeeds every Spatial IterVar of the producer is in
\* the spatial group exactly once, through a term of the dominant access or
\* as an untouched axis of domain 1, and the group has as many loops as the
\* block has Spatial IterVars.
SpatialVars(f) == {i \in 1..Len(f.iters) : f.iters[i].kind = "S"}
C17_SpatialOnceEach ==
  (round = 1 /\ ret.status = "ok") =>
     /\ Len(sch.loops[1]) = Cardinality(SpatialVars(func))
     /\ \A i \in SpatialVars(func) :
          /\ Cardinality({k \in 1..Len(sch.loops[1]) : sch.loops[1][k].iv = i}) = 1
          /\ i \in TermVars(func) \/ UnitSpatial(func, i)
C17_TermAndUnitAxis ==
  /\ round = 1 /\ pc = "normalized" /\ ret.status = "ok"
  /\ \E i, j \in SpatialVars(func) :
       i \in TermVars(func) /\ func.iters[i].dom > 1 /\ j \in Untouched(func)

\* C18: the cumulative form is recognised only with the accumulator as the
\* left operand of the addition: X[idx] = Y + X[idx], and a left operand that
\* loads X at indices other than the store's, make apply return None; a left
\* operand that is the load of X[idx] with its variables renamed is accepted.
AccumulatorRight(body) ==
  body.store /\ body.add /\ ~body.a.load /\ body.b = LoadAt(body.indices)
OtherIndices(body) ==
  body.store /\ body.add /\ body.a.load /\ ~SameUpToRenaming(body.a.idx, body.indices)
Renamed(body) ==
  /\ body.store /\ body.add /\ body.a.load
  /\ body.a.idx # body.indices
  /\ SameUpToRenaming(body.a.idx, body.indices)
C18_AccumulatorOnTheLeft ==
  (round = 1 /\ pc # "start") =>
     /\ (AccumulatorRight(func.body) \/ OtherIndices(func.body)) => NoMatch
     /\ (pc = "matched" => CumulativeForm(func.body))
     /\ (result = "sch" => CumulativeForm(func.body))
C18_RenamedAccepted ==
  /\ round = 1 /\ pc = "returned" /\ result = "sch"
  /\ Renamed(func.body)
C18_RightAccumulatorRejected ==
  /\ round = 1 /\ NoMatch /\ AccumulatorRight(func.body)
  /\ func.nblocks = 1 /\ func.isReduction /\ func.nwrites = 1

\* C19: in every emitted schedule no block is nested inside two loops bound
\* to the same thread axis: each of blockIdx.x, threadIdx.x and threadIdx.y
\* is bound by at most one loop of a block's nest, the broadcast epilogue of
\* _sch_inner_spatial included.
BoundTo(loops, thread) == {j \in 1..Len(loops) : loops[j].bind = thread}
AxisOnce(loops) ==
  \A thread \in {"blockIdx.x", "threadIdx.x", "threadIdx.y"} :
     Cardinality(BoundTo(loops, thread)) <= 1
C19_ThreadAxisOnce ==
  Scheduled => \A k \in 1..Len(sch.nests) : AxisOnce(sch.nests[k].loops)
C19_ThreadAxisOnceElsewhere ==
  Scheduled => \A k \in 1..Len(sch.nests) :
     (sch.strategy = "B" /\ sch.broadcast /\ sch.nests[k].block = "epi") \/ AxisOnce(sch.nests[k].loops)

\* C20: where the producer's result buffer is thread-private (the epilogue
\* is no broadcast), each epilogue instance a thread executes reads only
\* result elements the write-back block wrote on that same thread, under
\* _sch_inner_reduction and under _sch_inner_spatial.
ThreadPrivate == Ran("epi") /\ sch.scope.out = "local"
ReadsOwn ==
  \A th \in Threads(sch) :
     ReadBy(func, sch, ret.c_factor, gb, th) \subseteq WrittenBy(func, sch, ret.c_factor, gb, th)
C20_EpilogueReadsOwnThread == ThreadPrivate => ReadsOwn
C20_InnerReductionReadsOwnThread == (ThreadPrivate /\ sch.strategy = "A") => ReadsOwn
C20_InnerSpatialReadsOther == ThreadPrivate /\ sch.strategy = "B" /\ ReadsOwn

\* C21: a producer whose dominant access has two terms with the same source
\* IterVar, or a non-zero constant base, is an expected mismatch: apply
\* returns None on it and raises no error.
RepeatedSource(f) == ~TermsDistinct(f)
NonZeroBase(f) == f.access.base # 0
C21_RepeatedOrBaseNoMatch ==
  (round = 1 /\ pc \notin {"start", "matched"} /\ PatternOk(func)
     /\ (RepeatedSource(func) \/ NonZeroBase(func))) => NoMatch
C21_BaseNoMatch ==
  (round = 1 /\ pc \notin {"start", "matched"} /\ PatternOk(func) /\ NonZeroBase(func)) => NoMatch
C21_RepeatedRaises ==
  /\ round = 1 /\ pc = "returned" /\ result = "raised"
  /\ PatternOk(func) /\ RepeatedSource(func) /\ ~NonZeroBase(func)
  /\ \E k \in 1..Len(func.access.args) : func.access.args[k].lf > 1

\* C22: where the candidate has no epilogue (exactly one block) neither
\* strategy changes the scope of the producer's result buffer: the factored
\* buffer alone is set to local scope, the buffer the producer writes keeps
\* the scope it had in the input, and the schedule holds the three blocks of
\* the producer only.
C22_ResultScopeKept ==
  (Scheduled /\ ~HasEpilogue(func)) =>
     /\ sch.scope.out = NewSchedule(func).scope.out
     /\ sch.scope.rf = "local"
     /\ ~sch.broadcast
     /\ OutputBlocks(sch) = <<"rf_init", "rf_update", "wb">>
C22_InnerSpatialNoEpilogue ==
  /\ Scheduled /\ ~HasEpilogue(func)
  /\ sch.strategy = "B" /\ ret.c_factor > 1
  /\ sch.scope.rf = "local"
C22_InnerReductionNoEpilogue ==
  /\ Scheduled /\ ~HasEpilogue(func)
  /\ sch.strategy = "A" /\ sch.T > 1
  /\ sch.scope.rf = "local"
====
